---- MODULE Spec2Model ----
(***************************************************************************)
(* Model of SearchCollection (easysearch:core, search-collection.js): the  *)
(* publication set up by _setUpPublication, the keys it writes on the      *)
(* shared channel, and the client read view built from those keys.         *)
(*                                                                         *)
(* JavaScript strings are modelled as sequences of one-character strings,  *)
(* so that concatenation (generateId) and JSON.stringify are computed and  *)
(* not assumed to be injective.                                            *)
(***************************************************************************)
EXTENDS Integers, Sequences, FiniteSets, TLC

\* ------------------------------------------------------------------------
\* Bounds of the model
\* ------------------------------------------------------------------------
MaxIdLen == 3
MaxStrLen == 1
MaxDocs == 3
MaxEvents == 2

\* ------------------------------------------------------------------------
\* JavaScript values and strings
\* ------------------------------------------------------------------------
Q == "\""
B == "\\"
Alphabet == {"a", Q, B}

RECURSIVE StringsOfLen(_)
StringsOfLen(n) ==
  IF n = 0 THEN {<<>>}
  ELSE {Append(s, c) : s \in StringsOfLen(n - 1), c \in Alphabet}

StringsUpTo(n) == UNION {StringsOfLen(k) : k \in 0..n}

\* A JavaScript value: a string, the empty object {}, a number, or undefined.
Str(s) == [t |-> "string", s |-> s]
Undefined == [t |-> "undefined", s |-> <<>>]
EmptyObject == [t |-> "object", s |-> <<>>]
NumberOne == [t |-> "number", s |-> <<"1">>]

\* The escaping JSON.stringify applies inside a string literal.
RECURSIVE Escape(_)
Escape(s) ==
  IF s = <<>> THEN <<>>
  ELSE (IF Head(s) \in {Q, B} THEN <<B, Head(s)>> ELSE <<Head(s)>>)
       \o Escape(Tail(s))

\* JSON.stringify(v): a string value, or undefined for undefined.
JSONStringify(v) ==
  CASE v.t = "string" -> Str(<<Q>> \o Escape(v.s) \o <<Q>>)
    [] v.t = "object" -> Str(<<"{", "}">>)
    [] v.t = "number" -> Str(v.s)
    [] OTHER -> Undefined

\* The string a value becomes as an operand of JavaScript's string "+".
StringOf(v) ==
  IF v.t = "undefined"
  THEN <<"u", "n", "d", "e", "f", "i", "n", "e", "d">>
  ELSE v.s

\* ------------------------------------------------------------------------
\* Documents as published: the stamped fields of addCustomFields
\* ------------------------------------------------------------------------
NoPos == 0 - 1

\* A store document with none of the custom fields set.
Doc(id) ==
  [_id |-> id, __searchDefinition |-> Undefined, __searchOptions |-> Undefined,
   __sortPosition |-> NoPos, __originalId |-> <<>>]

\* addCustomFields(doc, {searchDefinition, searchOptions, sortPosition}).
AddCustomFields(doc, definitionString, optionsString, sortPosition) ==
  [doc EXCEPT !.__searchDefinition = definitionString,
              !.__searchOptions = optionsString,
              !.__sortPosition = sortPosition]

\* addCustomFields with the additional originalId: doc._id of addedAt/changedAt.
AddOriginalId(doc) == [doc EXCEPT !.__originalId = doc._id]

\* generateId with the options fingerprint left out of the key.
GenerateIdNoOptions(doc) ==
  doc._id \o StringOf(doc.__searchDefinition)

\* generateId(doc): doc._id + doc.__searchDefinition + doc.__searchOptions.
GenerateId(doc) ==
  doc._id \o StringOf(doc.__searchDefinition) \o StringOf(doc.__searchOptions)

SearchCountPrefix == <<"s", "e", "a", "r", "c", "h", "C", "o", "u", "n", "t">>
AggsPrefix == <<"a", "g", "g", "s">>

\* 'searchCount' + definitionString
CountKey(definitionString) == SearchCountPrefix \o StringOf(definitionString)

\* 'aggs' + definitionString
AggsKey(definitionString) == AggsPrefix \o StringOf(definitionString)

\* ------------------------------------------------------------------------
\* Messages on the subscription's channel and the client mirror
\* ------------------------------------------------------------------------
NoDoc == Doc(<<>>)
NoCount == 0 - 1
NoAggs == 0 - 1

\* cursor._aggs of a query with aggregations over the result: the facet the
\* engine reports, here the number of documents of the result.
Aggregate(result) == Len(result)

\* this.added / this.changed / this.removed / this.ready as called by the
\* publish handler; count is {count}, aggs is {aggs} of the synthetic records.
Msg(kind, key, doc, count, aggs) ==
  [kind |-> kind, key |-> key, doc |-> doc, count |-> count, aggs |-> aggs]

ReadyMsg == Msg("ready", <<>>, NoDoc, NoCount, NoAggs)

\* Fields of m.doc that the message carries, merged over the mirrored ones.
MergeDoc(old, new) ==
  [_id |-> old._id,
   __searchDefinition |->
     IF new.__searchDefinition = Undefined THEN old.__searchDefinition
     ELSE new.__searchDefinition,
   __searchOptions |->
     IF new.__searchDefinition = Undefined THEN old.__searchOptions
     ELSE new.__searchOptions,
   __sortPosition |->
     IF new.__sortPosition = NoPos THEN old.__sortPosition
     ELSE new.__sortPosition,
   __originalId |->
     IF new.__originalId = <<>> THEN old.__originalId ELSE new.__originalId]

\* The local collection after one message: added inserts under the key,
\* changed merges the fields it carries, removed deletes.
ApplyMsg(mir, m) ==
  LET others == {r \in mir : r.key # m.key}
      same == {r \in mir : r.key = m.key}
  IN CASE m.kind = "added" ->
            others \cup {[key |-> m.key, doc |-> m.doc, count |-> m.count,
                          aggs |-> m.aggs]}
       [] m.kind = "changed" ->
            others \cup
            {[key |-> r.key, doc |-> MergeDoc(r.doc, m.doc),
              count |-> IF m.count = NoCount THEN r.count ELSE m.count,
              aggs |-> IF m.aggs = NoAggs THEN r.aggs ELSE m.aggs] : r \in same}
       [] m.kind = "removed" -> others
       [] OTHER -> mir

RECURSIVE ApplyAll(_, _)
ApplyAll(mir, ms) ==
  IF ms = <<>> THEN mir ELSE ApplyAll(ApplyMsg(mir, Head(ms)), Tail(ms))

\* _getMongoCursor: the mirrored records selected by both fingerprints.
Selected(mir, searchDefinition, props) ==
  {r \in mir : /\ r.doc.__searchDefinition = JSONStringify(searchDefinition)
               /\ r.doc.__searchOptions = JSONStringify(props)}

\* ids is one of the orders sort: ['__sortPosition'] can return for the
\* selected records (records with equal positions may come in either order).
IsReadOrder(mir, searchDefinition, props, ids) ==
  LET sel == Selected(mir, searchDefinition, props)
  IN /\ Cardinality(sel) = Len(ids)
     /\ {r.doc.__originalId : r \in sel} = {ids[i] : i \in 1..Len(ids)}
     /\ \A i, j \in 1..Len(ids) :
          i < j =>
            \A r1, r2 \in sel :
              (r1.doc.__originalId = ids[i] /\ r2.doc.__originalId = ids[j])
                => r1.doc.__sortPosition <= r2.doc.__sortPosition

\* ------------------------------------------------------------------------
\* The observed store: the engine's ordered result as a sequence of ids
\* ------------------------------------------------------------------------
IdPool == <<"a", "b", "c", "d", "e">>
DocIds == {<<IdPool[i]>> : i \in 1..MaxDocs}
Null == <<>>

Elems(seq) == {seq[i] : i \in 1..Len(seq)}
IndexOf(seq, x) == (CHOOSE i \in 1..Len(seq) : seq[i] = x) - 1
InsertAt(seq, i, x) == SubSeq(seq, 1, i) \o <<x>> \o SubSeq(seq, i + 1, Len(seq))
RemoveAt(seq, i) == SubSeq(seq, 1, i) \o SubSeq(seq, i + 2, Len(seq))
\* The id following index i, or null at the end (observe's "before").
Before(seq, i) == IF i + 2 <= Len(seq) THEN seq[i + 2] ELSE Null

\* engine.config.beforePublish: the default hook returns the document.
BeforePublish(kind, doc) == doc

\* ------------------------------------------------------------------------
\* The observe callbacks of the publication
\* ------------------------------------------------------------------------
\* addedAt(doc, atIndex, before)
AddedAt(id, atIndex, definitionString, optionsString) ==
  LET doc == AddOriginalId(AddCustomFields(BeforePublish("addedAt", Doc(id)),
                             definitionString, optionsString, atIndex))
  IN <<Msg("added", GenerateId(doc), doc, NoCount, NoAggs)>>

\* changedAt(doc, oldDoc, atIndex)
ChangedAt(id, atIndex, definitionString, optionsString) ==
  LET doc == AddOriginalId(AddCustomFields(BeforePublish("changedAt", Doc(id)),
                             definitionString, optionsString, atIndex))
  IN <<Msg("changed", GenerateId(doc), doc, NoCount, NoAggs)>>

\* movedTo with the neighbour stamped with the moved document's new index.
MovedToNeighbourAtNewIndex(id, fromIndex, toIndex, before, coll, definitionString, optionsString) ==
  LET doc == AddCustomFields(BeforePublish("movedTo", Doc(id)),
                             definitionString, optionsString, toIndex)
      beforeDoc == AddCustomFields(Doc(before), definitionString,
                                   optionsString, toIndex)
  IN (IF before # Null /\ before \in coll
      THEN <<Msg("changed", GenerateId(beforeDoc), beforeDoc, NoCount, NoAggs)>>
      ELSE <<>>)
     \o <<Msg("changed", GenerateId(doc), doc, NoCount, NoAggs)>>

\* movedTo(doc, fromIndex, toIndex, before); coll is the collection that
\* findOne(before) reads, and findOne(null) finds nothing.
MovedTo(id, fromIndex, toIndex, before, coll, definitionString, optionsString) ==
  LET doc == AddCustomFields(BeforePublish("movedTo", Doc(id)),
                             definitionString, optionsString, toIndex)
      beforeDoc == AddCustomFields(Doc(before), definitionString,
                                   optionsString, fromIndex)
  IN (IF before # Null /\ before \in coll
      THEN <<Msg("changed", GenerateId(beforeDoc), beforeDoc, NoCount, NoAggs)>>
      ELSE <<>>)
     \o <<Msg("changed", GenerateId(doc), doc, NoCount, NoAggs)>>

\* removedAt with the custom fields not stamped before generateId.
RemovedAtNoFields(id, atIndex, definitionString, optionsString) ==
  <<Msg("removed", GenerateId(BeforePublish("removedAt", Doc(id))), NoDoc, NoCount, NoAggs)>>

\* removedAt(doc, atIndex)
RemovedAt(id, atIndex, definitionString, optionsString) ==
  LET doc == AddCustomFields(BeforePublish("removedAt", Doc(id)),
                             definitionString, optionsString, NoPos)
  IN <<Msg("removed", GenerateId(doc), NoDoc, NoCount, NoAggs)>>

\* The initial addedAt calls, made in reverse result order.
RECURSIVE InitialAddsReversed(_, _, _)
InitialAddsReversed(result, definitionString, optionsString) ==
  IF result = <<>> THEN <<>>
  ELSE AddedAt(result[Len(result)], Len(result) - 1, definitionString, optionsString)
       \o InitialAddsReversed(SubSeq(result, 1, Len(result) - 1),
                              definitionString, optionsString)

\* cursor.mongoCursor.observe(...): before it returns, addedAt is called for
\* every document of the result, in result order, with its index; the calls
\* are made one by one.
RECURSIVE InitialAdds(_, _, _)
InitialAdds(result, definitionString, optionsString) ==
  IF result = <<>> THEN <<>>
  ELSE InitialAdds(SubSeq(result, 1, Len(result) - 1),
                   definitionString, optionsString)
       \o AddedAt(result[Len(result)], Len(result) - 1,
                  definitionString, optionsString)

\* ------------------------------------------------------------------------
\* The publish handler before observe
\* ------------------------------------------------------------------------
\* check(searchDefinition, Match.OneOf(String, Object))
CheckDefinition(searchDefinition) == searchDefinition.t \in {"string", "object"}

\* The early exits with the permission gate left out.
RejectedNoPermission(r) ==
  \/ ~CheckDefinition(r.searchDefinition)
  \/ ~r.optionsIsObject
  \/ ~r.paramOk

\* The early exits of the handler: the two check() calls, permission(options)
\* returning false, and engine.checkSearchParam throwing.
Rejected(r) ==
  \/ ~CheckDefinition(r.searchDefinition)
  \/ ~r.optionsIsObject
  \/ ~r.permitted
  \/ ~r.paramOk

\* The baseline records with the aggregation record left out.
BaselineMsgsNoAggs(definitionString, count, aggs) ==
  <<Msg("added", CountKey(definitionString), NoDoc, count, NoAggs)>>

\* this.added(searchCount...) and, if (aggs), this.added(aggs...).
BaselineMsgs(definitionString, count, aggs) ==
  <<Msg("added", CountKey(definitionString), NoDoc, count, NoAggs)>>
  \o (IF aggs # NoAggs
      THEN <<Msg("added", AggsKey(definitionString), NoDoc, NoCount, aggs)>>
      ELSE <<>>)

\* The timers Meteor.setInterval starts: the count refresh if
\* countUpdateIntervalMs, the aggregation refresh if aggs && aggsUpdateIntervalMs.
StartedTimers(c, aggs) ==
  (IF c.countUpdateIntervalMs THEN {"count"} ELSE {})
  \cup (IF aggs # NoAggs /\ c.aggsUpdateIntervalMs THEN {"aggs"} ELSE {})

\* intervalID after both assignments: the aggregation timer's handle is
\* assigned to intervalID as well, replacing the count timer's handle.
IntervalID(c, aggs) ==
  IF aggs # NoAggs /\ c.aggsUpdateIntervalMs THEN "aggs"
  ELSE IF c.countUpdateIntervalMs THEN "count" ELSE "none"

\* intervalAggsID is declared and never assigned.
IntervalAggsID(c, aggs) == "none"

\* this.mongoCount inside the interval callback: this is the publication
\* context, which has no mongoCount property, whatever the collection's is.
ThisMongoCount(collectionMongoCount) == FALSE

\* cursor.count(): the count the cursor was constructed with.
CursorCount(closure) == closure.count

\* The value the count refresh callback pushes.
NewCount(closure, collectionMongoCount, liveCount) ==
  IF ThisMongoCount(collectionMongoCount) THEN liveCount
  ELSE CursorCount(closure)

\* The first onStop handler: clearInterval on the two handles that are set,
\* then resultsHandle.stop().  While the handler has not passed
\* let resultsHandle = ... observe(...) the variable is not initialised and
\* reading it raises a ReferenceError.
FirstOnStop(closure) ==
  (IF closure.intervalID # "none"
   THEN <<[op |-> "clearInterval", h |-> closure.intervalID]>> ELSE <<>>)
  \o (IF closure.intervalAggsID # "none"
      THEN <<[op |-> "clearInterval", h |-> closure.intervalAggsID]>> ELSE <<>>)
  \o (IF closure.resultsHandle
      THEN <<[op |-> "stop", h |-> "resultsHandle"]>>
      ELSE <<[op |-> "ReferenceError", h |-> "resultsHandle"]>>)

\* The second onStop handler: resultsHandle.stop(), a TypeError if
\* resultsHandle is not set.
SecondOnStop(closure) ==
  IF closure.resultsHandle
  THEN <<[op |-> "stop", h |-> "resultsHandle"]>>
  ELSE <<[op |-> "TypeError", h |-> "resultsHandle"]>>

\* The calls the two stop handlers make on the publication context: none.
StopMsgs(closure) == <<>>

\* The observer after the teardown calls of log: resultsHandle.stop() ends it.
ObservingAfter(obs, log) == obs /\ \A i \in 1..Len(log) : log[i].op # "stop"

\* ------------------------------------------------------------------------
\* State
\* ------------------------------------------------------------------------
VARIABLES
  cfg,        \* index configuration and the collection's mongoCount
  store,      \* the engine's current ordered result (ids)
  pc,         \* "idle", "error", "failed", "initializing" (the handler
              \* waits in observe), "streaming", "stoppedInitializing"
              \* (stopped during that wait) or "stopped"
  req,        \* the subscribe request handled
  sub,        \* the closure of the publish handler
  msgs,       \* the calls made on the publication context, in order
  mirror,     \* the client's local collection after those messages
  timers,     \* the interval timers that are scheduled
  observing,  \* the observer of the result is active
  stopLog,    \* the teardown calls made by the stop handlers
  searchCalls,\* number of engine.search calls
  initial,    \* the ordered result the observer started with
  ev,         \* the last step: the event handled and what it emitted
  events,     \* number of store events, timer ticks, stops and finds so far
  pair,       \* two subscriptions on one channel and the keys they write
  found,      \* the cursor the client's last find returned
  pending     \* the movedTo callback that waits in findOne(before)

vars == <<cfg, store, pc, req, sub, msgs, mirror, timers, observing, stopLog,
          searchCalls, initial, ev, events, pair, found, pending>>

Event(kind, id, from, to, before, out, matching) ==
  [kind |-> kind, id |-> id, from |-> from, to |-> to, before |-> before,
   out |-> out, matching |-> matching]

NoEvent == Event("none", Null, NoPos, NoPos, Null, <<>>, NoCount)

NoReq ==
  [searchDefinition |-> Undefined, optionsIsObject |-> FALSE, props |-> Undefined,
   permitted |-> FALSE, paramOk |-> FALSE, aggs |-> FALSE, fail |-> "none"]

NoSub ==
  [definitionString |-> Undefined, optionsString |-> Undefined, count |-> NoCount,
   aggs |-> NoAggs, intervalID |-> "none", intervalAggsID |-> "none",
   resultsHandle |-> FALSE]

NoFound == [searchDefinition |-> Undefined, count |-> NoCount, reactive |-> FALSE]
NoPending == [id |-> Null, from |-> NoPos, to |-> NoPos, before |-> Null]
NoKeys == [doc |-> <<>>, count |-> <<>>, aggs |-> <<>>]
NoQuery == [id |-> <<>>, searchDefinition |-> Undefined, props |-> Undefined]
NoPair == [a |-> NoQuery, b |-> NoQuery, keysA |-> NoKeys, keysB |-> NoKeys]

Configs ==
  [countUpdateIntervalMs : BOOLEAN, aggsUpdateIntervalMs : BOOLEAN,
   mongoCount : BOOLEAN]

\* Requests that pass every check, and one request per way of being rejected.
GoodRequests ==
  [searchDefinition : {Str(<<"a">>)}, optionsIsObject : {TRUE},
   props : {EmptyObject}, permitted : {TRUE}, paramOk : {TRUE},
   aggs : BOOLEAN, fail : {"none"}]

\* Requests during whose initial evaluation engine.search, cursor.count or
\* cursor.mongoCursor.observe throws.
FailingRequests ==
  {[r EXCEPT !.fail = f] : r \in GoodRequests, f \in {"search", "count", "observe"}}

BaseRequest ==
  [searchDefinition |-> Str(<<"a">>), optionsIsObject |-> TRUE,
   props |-> EmptyObject, permitted |-> TRUE, paramOk |-> TRUE, aggs |-> TRUE,
   fail |-> "none"]

BadRequests ==
  {[BaseRequest EXCEPT !.searchDefinition = NumberOne],
   [BaseRequest EXCEPT !.optionsIsObject = FALSE],
   [BaseRequest EXCEPT !.permitted = FALSE],
   [BaseRequest EXCEPT !.paramOk = FALSE]}

Requests == GoodRequests \cup BadRequests \cup FailingRequests

Init ==
  /\ cfg \in Configs
  /\ store \in {[i \in 1..n |-> <<IdPool[i]>>] : n \in 0..MaxDocs}
  /\ pc = "idle"
  /\ req = NoReq
  /\ sub = NoSub
  /\ msgs = <<>>
  /\ mirror = {}
  /\ timers = {}
  /\ observing = FALSE
  /\ stopLog = <<>>
  /\ searchCalls = 0
  /\ initial = <<>>
  /\ ev = NoEvent
  /\ events = 0
  /\ pair = NoPair
  /\ found = NoFound
  /\ pending = NoPending

\* ------------------------------------------------------------------------
\* Meteor.publish(collectionName, function (searchDefinition, options) ...)
\* ------------------------------------------------------------------------
PublishRejected(r) ==
  /\ pc = "idle"
  /\ Rejected(r)
  /\ req' = r
  /\ pc' = "error"
  /\ ev' = Event("rejected", Null, NoPos, NoPos, Null, <<>>, NoCount)
  /\ UNCHANGED <<cfg, store, sub, msgs, mirror, timers, observing, stopLog,
                 searchCalls, initial, events, pair, found, pending>>

\* The handler up to the call of cursor.mongoCursor.observe (line 240): the
\* baseline records are sent, the timers run and the first onStop handler is
\* registered; the call starts the observer of the result the search
\* returned, unless it throws, and the handler waits in it.
Publish(r) ==
  /\ pc = "idle"
  /\ ~Rejected(r)
  /\ r.fail \in {"none", "observe"}
  /\ LET definitionString == JSONStringify(r.searchDefinition)
         optionsString == JSONStringify(r.props)
         count == Len(store)
         aggs == IF r.aggs THEN Aggregate(store) ELSE NoAggs
         out == BaselineMsgs(definitionString, count, aggs)
     IN /\ req' = r
        /\ searchCalls' = searchCalls + 1
        /\ sub' = [definitionString |-> definitionString,
                   optionsString |-> optionsString,
                   count |-> count,
                   aggs |-> aggs,
                   intervalID |-> IntervalID(cfg, aggs),
                   intervalAggsID |-> IntervalAggsID(cfg, aggs),
                   resultsHandle |-> FALSE]
        /\ timers' = StartedTimers(cfg, aggs)
        /\ observing' = (r.fail = "none")
        /\ initial' = store
        /\ msgs' = msgs \o out
        /\ mirror' = ApplyAll(mirror, out)
        /\ ev' = Event("publish", Null, NoPos, NoPos, Null, out, count)
        /\ pc' = "initializing"
  /\ UNCHANGED <<cfg, store, stopLog, events, pair, found, pending>>

\* The timers the clearInterval calls of log cancel.
Cleared(log) == {log[i].h : i \in {k \in 1..Len(log) : log[k].op = "clearInterval"}}

\* The initial addedAt calls made so far.
InitialDelivered ==
  Cardinality({k \in 1..Len(msgs) : msgs[k].kind = "added" /\ msgs[k].doc # NoDoc})

\* The next initial addedAt call, made while the handler waits in observe.
\* The first stop handler cannot stop the observer (resultsHandle is not
\* assigned yet), so the calls go on after a stop.
InitialAddedAt ==
  /\ pc \in {"initializing", "stoppedInitializing"}
  /\ observing
  /\ InitialDelivered < Len(initial)
  /\ LET k == InitialDelivered + 1
         out == <<InitialAdds(initial, sub.definitionString,
                              sub.optionsString)[k]>>
     IN /\ msgs' = msgs \o out
        /\ mirror' = ApplyAll(mirror, out)
        /\ ev' = Event("addedAt", initial[k], NoPos, k - 1, Null, out, Len(store))
  /\ UNCHANGED <<cfg, store, pc, req, sub, timers, observing, stopLog,
                 searchCalls, initial, events, pair, found, pending>>

\* observe returns after the initial addedAt calls: resultsHandle is set, the
\* second onStop handler is registered and ready is called.  On a
\* subscription stopped during the wait onStop runs the second handler at
\* once, and ready is called all the same.
ObserveReturns ==
  /\ pc \in {"initializing", "stoppedInitializing"}
  /\ observing
  /\ InitialDelivered = Len(initial)
  /\ LET out == <<ReadyMsg>>
         closure == [sub EXCEPT !.resultsHandle = TRUE]
         log == SecondOnStop(closure)
     IN /\ sub' = closure
        /\ msgs' = msgs \o out
        /\ mirror' = ApplyAll(mirror, out)
        /\ ev' = Event("observe", Null, NoPos, NoPos, Null, out, Len(store))
        /\ IF pc = "initializing"
           THEN /\ pc' = "streaming"
                /\ UNCHANGED <<observing, stopLog>>
           ELSE /\ observing' = ObservingAfter(observing, log)
                /\ pc' = "stopped"
                /\ stopLog' = stopLog \o log
  /\ UNCHANGED <<cfg, store, req, timers, searchCalls, initial, events, pair,
                 found, pending>>

\* observe throws: the subscription is stopped with the error and the one
\* stop handler registered so far runs, unless a stop already ran it.
ObserveThrows ==
  /\ pc \in {"initializing", "stoppedInitializing"}
  /\ ~observing
  /\ pc' = "failed"
  /\ IF pc = "initializing"
     THEN LET log == FirstOnStop(sub)
          IN /\ stopLog' = stopLog \o log
             /\ timers' = timers \ Cleared(log)
     ELSE UNCHANGED <<stopLog, timers>>
  /\ ev' = Event("failed", Null, NoPos, NoPos, Null, <<>>, NoCount)
  /\ UNCHANGED <<cfg, store, req, sub, msgs, mirror, observing, searchCalls,
                 initial, events, pair, found, pending>>

\* engine.search or cursor.count throws: nothing was sent or started and no
\* stop handler is registered.
PublishFails(r) ==
  /\ pc = "idle"
  /\ ~Rejected(r)
  /\ r.fail \in {"search", "count"}
  /\ req' = r
  /\ searchCalls' = searchCalls + 1
  /\ pc' = "failed"
  /\ ev' = Event("failed", Null, NoPos, NoPos, Null, <<>>, NoCount)
  /\ UNCHANGED <<cfg, store, sub, msgs, mirror, timers, stopLog, observing,
                 initial, events, pair, found, pending>>

\* ------------------------------------------------------------------------
\* Store changes, delivered to the observer while it is active.  The result
\* observe returns is the one drawn by Init, so the store changes that are
\* modelled are the ones after observe returned; after
\* resultsHandle.stop() no callback is called.  The observer delivers one
\* callback at a time: no change is delivered while movedTo waits in findOne.
\* ------------------------------------------------------------------------
Emit(kind, id, from, to, before, out) ==
  /\ pc = "streaming"
  /\ observing
  /\ pending = NoPending
  /\ events < MaxEvents
  /\ events' = events + 1
  /\ msgs' = msgs \o out
  /\ mirror' = ApplyAll(mirror, out)
  /\ ev' = Event(kind, id, from, to, before, out, Len(store'))
  /\ UNCHANGED <<cfg, pc, req, sub, timers, observing, stopLog, searchCalls,
                 initial, pair, found, pending>>

StoreInsert(id, i) ==
  /\ id \notin Elems(store)
  /\ i \in 0..Len(store)
  /\ store' = InsertAt(store, i, id)
  /\ Emit("addedAt", id, NoPos, i, Before(store', i),
          AddedAt(id, i, sub.definitionString, sub.optionsString))

StoreChange(id) ==
  /\ id \in Elems(store)
  /\ store' = store
  /\ Emit("changedAt", id, NoPos, IndexOf(store, id), Null,
          ChangedAt(id, IndexOf(store, id), sub.definitionString,
                    sub.optionsString))

\* movedTo is called and waits in findOne(before) (line 271).
StoreMove(id, j) ==
  /\ pc = "streaming"
  /\ observing
  /\ pending = NoPending
  /\ events < MaxEvents
  /\ events' = events + 1
  /\ id \in Elems(store)
  /\ j \in 0..(Len(store) - 1)
  /\ j # IndexOf(store, id)
  /\ store' = InsertAt(RemoveAt(store, IndexOf(store, id)), j, id)
  /\ pending' = [id |-> id, from |-> IndexOf(store, id), to |-> j,
                 before |-> Before(store', j)]
  /\ ev' = Event("findOne", id, IndexOf(store, id), j, Before(store', j),
                 <<>>, Len(store'))
  /\ UNCHANGED <<cfg, pc, req, sub, msgs, mirror, timers, observing, stopLog,
                 searchCalls, initial, pair, found>>

\* findOne(before) returns and movedTo sends its messages, whether or not
\* the subscription was stopped meanwhile.  The collection findOne reads
\* holds the before document, or has lost it already.
MovedToResumes(coll) ==
  /\ pending # NoPending
  /\ coll \in {Elems(store), Elems(store) \ {pending.before}}
  /\ LET out == MovedTo(pending.id, pending.from, pending.to, pending.before,
                        coll, sub.definitionString, sub.optionsString)
     IN /\ msgs' = msgs \o out
        /\ mirror' = ApplyAll(mirror, out)
        /\ ev' = [kind |-> "movedTo", id |-> pending.id, from |-> pending.from,
                  to |-> pending.to, before |-> pending.before, out |-> out,
                  matching |-> Len(store), coll |-> coll]
  /\ pending' = NoPending
  /\ UNCHANGED <<cfg, store, pc, req, sub, timers, observing, stopLog,
                 searchCalls, initial, events, pair, found>>

StoreRemove(id) ==
  /\ id \in Elems(store)
  /\ store' = RemoveAt(store, IndexOf(store, id))
  /\ Emit("removedAt", id, IndexOf(store, id), NoPos, Null,
          RemovedAt(id, IndexOf(store, id), sub.definitionString,
                    sub.optionsString))

\* ------------------------------------------------------------------------
\* The interval callbacks
\* ------------------------------------------------------------------------
CountTick ==
  /\ "count" \in timers
  /\ events < MaxEvents
  /\ events' = events + 1
  /\ LET out == <<Msg("changed", CountKey(sub.definitionString), NoDoc,
                      NewCount(sub, cfg.mongoCount, Len(store)), NoAggs)>>
     IN /\ msgs' = msgs \o out
        /\ mirror' = ApplyAll(mirror, out)
        /\ ev' = Event("countTick", Null, NoPos, NoPos, Null, out, Len(store))
  /\ UNCHANGED <<cfg, store, pc, req, sub, timers, observing, stopLog,
                 searchCalls, initial, pair, found, pending>>

AggsTick ==
  /\ "aggs" \in timers
  /\ events < MaxEvents
  /\ events' = events + 1
  /\ LET out == <<Msg("changed", AggsKey(sub.definitionString), NoDoc,
                      NoCount, sub.aggs)>>
     IN /\ msgs' = msgs \o out
        /\ mirror' = ApplyAll(mirror, out)
        /\ ev' = Event("aggsTick", Null, NoPos, NoPos, Null, out, Len(store))
  /\ UNCHANGED <<cfg, store, pc, req, sub, timers, observing, stopLog,
                 searchCalls, initial, pair, found, pending>>

\* ------------------------------------------------------------------------
\* Stop of the subscription: the onStop handlers run in registration order
\* ------------------------------------------------------------------------
Stop ==
  /\ pc \in {"initializing", "streaming"}
  /\ events < MaxEvents
  /\ events' = events + 1
  /\ LET log == IF pc = "streaming"
                THEN FirstOnStop(sub) \o SecondOnStop(sub)
                ELSE FirstOnStop(sub)
     IN /\ stopLog' = stopLog \o log
        /\ timers' = timers \ Cleared(log)
        /\ observing' = ObservingAfter(observing, log)
  /\ msgs' = msgs \o StopMsgs(sub)
  /\ mirror' = ApplyAll(mirror, StopMsgs(sub))
  /\ pc' = IF pc = "streaming" THEN "stopped" ELSE "stoppedInitializing"
  /\ ev' = Event("stop", Null, NoPos, NoPos, Null, StopMsgs(sub), NoCount)
  /\ UNCHANGED <<cfg, store, req, sub, searchCalls, initial, pair, found,
                 pending>>

\* The stop handlers run once more on a stopped subscription.
StopAgain ==
  /\ pc = "stopped"
  /\ events < MaxEvents
  /\ events' = events + 1
  /\ LET log == FirstOnStop(sub) \o SecondOnStop(sub)
     IN /\ stopLog' = stopLog \o log
        /\ timers' = timers \ Cleared(log)
        /\ observing' = ObservingAfter(observing, log)
  /\ msgs' = msgs \o StopMsgs(sub)
  /\ mirror' = ApplyAll(mirror, StopMsgs(sub))
  /\ ev' = Event("stopAgain", Null, NoPos, NoPos, Null, StopMsgs(sub), NoCount)
  /\ UNCHANGED <<cfg, store, pc, req, sub, searchCalls, initial, pair, found, pending>>

\* ------------------------------------------------------------------------
\* The client: find(searchDefinition, options)
\* ------------------------------------------------------------------------
\* _getCount reading the key without JSON.stringify.
GetCountUnstringified(mir, searchDefinition) ==
  LET docs == {r \in mir : r.key = SearchCountPrefix \o StringOf(searchDefinition)}
  IN IF docs = {} THEN NoCount ELSE (CHOOSE r \in docs : TRUE).count

\* _getCount: findOne('searchCount' + JSON.stringify(searchDefinition)) and
\* its count, undefined (NoCount) without such a record.
GetCount(mir, searchDefinition) ==
  LET docs == {r \in mir : r.key = CountKey(JSONStringify(searchDefinition))}
  IN IF docs = {} THEN NoCount ELSE (CHOOSE r \in docs : TRUE).count

\* find: Cursor(mongoCursor, 0, false) if the count is no number, otherwise
\* Cursor(mongoCursor, count, true, publishHandle).
Find(mir, searchDefinition) ==
  LET count == GetCount(mir, searchDefinition)
  IN IF count = NoCount
     THEN [searchDefinition |-> searchDefinition, count |-> 0, reactive |-> FALSE]
     ELSE [searchDefinition |-> searchDefinition, count |-> count, reactive |-> TRUE]

FindDefinitions == {Str(<<"a">>), Str(<<>>)}

ClientFind(searchDefinition) ==
  /\ events < MaxEvents
  /\ events' = events + 1
  /\ found' = Find(mirror, searchDefinition)
  /\ ev' = Event("find", Null, NoPos, NoPos, Null, <<>>, NoCount)
  /\ UNCHANGED <<cfg, store, pc, req, sub, msgs, mirror, timers, observing,
                 stopLog, searchCalls, initial, pair, pending>>

Next ==
  \/ \E r \in Requests : PublishRejected(r)
  \/ \E r \in Requests : Publish(r)
  \/ \E r \in Requests : PublishFails(r)
  \/ InitialAddedAt
  \/ ObserveReturns
  \/ ObserveThrows
  \/ \E id \in DocIds, i \in 0..MaxDocs : StoreInsert(id, i)
  \/ \E id \in DocIds : StoreChange(id)
  \/ \E id \in DocIds, j \in 0..MaxDocs : StoreMove(id, j)
  \/ \E coll \in SUBSET DocIds : MovedToResumes(coll)
  \/ \E id \in DocIds : StoreRemove(id)
  \/ CountTick
  \/ AggsTick
  \/ Stop
  \/ StopAgain
  \/ \E d \in FindDefinitions : ClientFind(d)

Spec == Init /\ [][Next]_vars

\* ------------------------------------------------------------------------
\* Two subscriptions on one channel: the keys each of them writes
\* ------------------------------------------------------------------------
Ids == StringsUpTo(MaxIdLen) \ {<<>>}
Definitions == {Str(s) : s \in StringsUpTo(MaxStrLen)} \cup {EmptyObject}
PropsValues == {Undefined, EmptyObject}
Prefixes(id) == {SubSeq(id, 1, n) : n \in 1..Len(id)}

\* The keys a subscription for (searchDefinition, props) writes for the
\* document id and for its count and aggregation records.
KeysOf(q) ==
  LET definitionString == JSONStringify(q.searchDefinition)
      optionsString == JSONStringify(q.props)
      base == BaselineMsgs(definitionString, 0, 0)
  IN [doc |-> AddedAt(q.id, 0, definitionString, optionsString)[1].key,
      count |-> base[1].key,
      aggs |-> base[Len(base)].key]

\* The Query Fingerprint: (definition string, options string).
Fingerprint(q) == <<JSONStringify(q.searchDefinition), JSONStringify(q.props)>>

\* Two keys of this scheme can only be equal when one id is a prefix of the
\* other, so the second id ranges over the prefixes of the first.
InitKeys ==
  /\ cfg = [countUpdateIntervalMs |-> FALSE, aggsUpdateIntervalMs |-> FALSE,
            mongoCount |-> TRUE]
  /\ store = <<>>
  /\ pc = "idle"
  /\ req = NoReq
  /\ sub = NoSub
  /\ msgs = <<>>
  /\ mirror = {}
  /\ timers = {}
  /\ observing = FALSE
  /\ stopLog = <<>>
  /\ searchCalls = 0
  /\ initial = <<>>
  /\ ev = NoEvent
  /\ events = 0
  /\ found = NoFound
  /\ pending = NoPending
  /\ \E ida \in Ids, da \in Definitions, pa \in PropsValues,
        db \in Definitions, pb \in PropsValues :
       \E idb \in Prefixes(ida) :
         pair = [a |-> [id |-> ida, searchDefinition |-> da, props |-> pa],
                 b |-> [id |-> idb, searchDefinition |-> db, props |-> pb],
                 keysA |-> NoKeys, keysB |-> NoKeys]

\* The handler of a subscription writes its count and aggregation keys
\* (lines 193, 218) before it waits in observe (line 240), and the key of
\* the document when observe delivers it (line 250).  The two handlers run
\* in either order and one can run while the other waits.
WriteBaselineA ==
  /\ pair.keysA = NoKeys
  /\ pair' = [pair EXCEPT !.keysA = [KeysOf(pair.a) EXCEPT !.doc = <<>>]]
  /\ UNCHANGED <<cfg, store, pc, req, sub, msgs, mirror, timers, observing,
                 stopLog, searchCalls, initial, ev, events,
                 found, pending>>

WriteDocumentA ==
  /\ pair.keysA # NoKeys
  /\ pair.keysA.doc = <<>>
  /\ pair' = [pair EXCEPT !.keysA = KeysOf(pair.a)]
  /\ UNCHANGED <<cfg, store, pc, req, sub, msgs, mirror, timers, observing,
                 stopLog, searchCalls, initial, ev, events,
                 found, pending>>

WriteBaselineB ==
  /\ pair.keysB = NoKeys
  /\ pair' = [pair EXCEPT !.keysB = [KeysOf(pair.b) EXCEPT !.doc = <<>>]]
  /\ UNCHANGED <<cfg, store, pc, req, sub, msgs, mirror, timers, observing,
                 stopLog, searchCalls, initial, ev, events,
                 found, pending>>

WriteDocumentB ==
  /\ pair.keysB # NoKeys
  /\ pair.keysB.doc = <<>>
  /\ pair' = [pair EXCEPT !.keysB = KeysOf(pair.b)]
  /\ UNCHANGED <<cfg, store, pc, req, sub, msgs, mirror, timers, observing,
                 stopLog, searchCalls, initial, ev, events,
                 found, pending>>

NextKeys ==
  \/ WriteBaselineA
  \/ WriteDocumentA
  \/ WriteBaselineB
  \/ WriteDocumentB

SpecKeys == InitKeys /\ [][NextKeys]_vars

\* Both subscriptions have written their count and aggregation keys.
BaselinesWritten == pair.keysA # NoKeys /\ pair.keysB # NoKeys

\* Both subscriptions have written the key of their document as well.
BothWritten == pair.keysA.doc # <<>> /\ pair.keysB.doc # <<>>

\* C3: two (document id, Query Fingerprint) pairs that differ in the id or in
\* the fingerprint never get the same key from generateId.
C3_IdentityInjective ==
  (BothWritten /\ (pair.a.id # pair.b.id \/ Fingerprint(pair.a) # Fingerprint(pair.b)))
    => pair.keysA.doc # pair.keysB.doc

\* C4: for one document id, two different Query Fingerprints give two
\* different keys.
C4_SameIdDistinctFingerprints ==
  (BothWritten /\ pair.a.id = pair.b.id /\ Fingerprint(pair.a) # Fingerprint(pair.b))
    => pair.keysA.doc # pair.keysB.doc

\* Both subscriptions have written the key of the same document id, and their
\* fingerprints differ in the options string only.
C4_Witness ==
  /\ BothWritten
  /\ pair.a.id = pair.b.id
  /\ Fingerprint(pair.a)[1] = Fingerprint(pair.b)[1]
  /\ Fingerprint(pair.a)[2] # Fingerprint(pair.b)[2]
  /\ pair.keysA.doc # pair.keysB.doc

\* C10: two subscriptions whose Query Fingerprints differ never write the
\* same count-record key nor the same aggregation-record key.
C10_CountKeyPerFingerprint ==
  (BaselinesWritten /\ Fingerprint(pair.a) # Fingerprint(pair.b))
    => (pair.keysA.count # pair.keysB.count /\ pair.keysA.aggs # pair.keysB.aggs)

\* ------------------------------------------------------------------------
\* Claims about one subscription
\* ------------------------------------------------------------------------
\* The publish handler ran to its end: observe returned and ready was called.
Published == pc \in {"streaming", "stopped"}

\* The key of document id under the subscription's fingerprint.
KeyFor(id) == id \o StringOf(sub.definitionString) \o StringOf(sub.optionsString)

IsDocAdded(m, id, position) ==
  /\ m.kind = "added"
  /\ m.key = KeyFor(id)
  /\ m.doc.__originalId = id
  /\ m.doc.__sortPosition = position

IsCountAdded(m) == m.kind = "added" /\ m.key = CountKey(sub.definitionString)
IsAggsAdded(m) == m.kind = "added" /\ m.key = AggsKey(sub.definitionString)

\* Number of synthetic records pushed for the subscription.
HasAggs == sub.aggs # NoAggs
Baseline == IF HasAggs THEN 2 ELSE 1

\* C1 as stated: after a successful subscribe the first N messages are the
\* added messages of the N documents of the initial result, in result order,
\* and message N + 1 is ready.
C1_InitialAddsFirst ==
  Published =>
    /\ Len(msgs) >= Len(initial) + 1
    /\ \A i \in 1..Len(initial) : IsDocAdded(msgs[i], initial[i], i - 1)
    /\ msgs[Len(initial) + 1].kind = "ready"

CountAdds == {k \in 1..Len(msgs) : IsCountAdded(msgs[k])}
AggsAdds == {k \in 1..Len(msgs) : IsAggsAdded(msgs[k])}
DocAdds == {k \in 1..Len(msgs) : msgs[k].kind = "added" /\ msgs[k].doc # NoDoc}
Readies == {k \in 1..Len(msgs) : msgs[k].kind = "ready"}

IsAdded(m) == m.kind = "added"

IsRefresh(m) ==
  /\ m.kind = "changed"
  /\ m.key \in {CountKey(sub.definitionString), AggsKey(sub.definitionString)}

\* The messages before the first ready.
BeforeReady ==
  SubSeq(msgs, 1, (CHOOSE r \in Readies : \A q \in Readies : r <= q) - 1)

\* C1 amended: after a successful subscribe the channel starts with the added
\* of the count record, then the added of the aggregation record when the
\* query produces aggregations; the added messages sent before ready are
\* these and then the added messages of the N documents of the initial
\* result in result order, stamped 0..N-1, and ready comes after all of
\* them.  Refresh ticks can fall anywhere after the baseline records.
C1_BaselineThenInitialAdds ==
  Published =>
    /\ Readies # {}
    /\ LET adds == SelectSeq(BeforeReady, IsAdded)
       IN /\ Len(adds) = Baseline + Len(initial)
          /\ \A k \in 1..Baseline : msgs[k] = adds[k]
          /\ IsCountAdded(adds[1])
          /\ HasAggs => IsAggsAdded(adds[2])
          /\ \A i \in 1..Len(initial) :
               IsDocAdded(adds[Baseline + i], initial[i], i - 1)

\* A subscription with a count timer has delivered its initial result and
\* signalled ready, and a refresh tick fell between two of the documents.
C1_Witness ==
  /\ pc = "streaming"
  /\ Len(initial) >= 2
  /\ msgs[Len(msgs)].kind = "ready"
  /\ \E k \in 2..(Len(msgs) - 1) :
       /\ IsRefresh(msgs[k])
       /\ msgs[k - 1].kind = "added" /\ msgs[k - 1].doc # NoDoc
       /\ msgs[k + 1].kind = "added" /\ msgs[k + 1].doc # NoDoc

\* C2: once the subscription is stopped, no message is emitted any more.
C2_NoMessageAfterStop == [][pc = "stopped" => msgs' = msgs]_vars

RejectedRequest ==
  /\ req # NoReq
  /\ \/ ~req.permitted
     \/ ~req.paramOk
     \/ ~req.optionsIsObject
     \/ req.searchDefinition.t \notin {"string", "object"}

\* C5: a request rejected by permission(options) or by a parameter check
\* never reaches engine.search, starts no timer, creates no observer and
\* emits no message; it only ends in the error.
C5_RejectedAcquiresNothing ==
  RejectedRequest =>
    /\ pc = "error"
    /\ searchCalls = 0
    /\ timers = {}
    /\ ~observing
    /\ ~sub.resultsHandle
    /\ msgs = <<>>
    /\ mirror = {}

\* A request refused by permission(options), and a find of the client after.
C5_Witness ==
  /\ pc = "error"
  /\ req # NoReq
  /\ ~req.permitted
  /\ ev.kind = "find"
  /\ ~found.reactive
  /\ msgs = <<>>

\* C6 as stated: the count record (and the aggregation record when there are
\* aggregations) is added exactly once, after the last added message of the
\* initial result and before ready.
C6_BaselineAfterInitialAdds ==
  Published =>
    /\ Cardinality(CountAdds) = 1
    /\ Cardinality(AggsAdds) = (IF HasAggs THEN 1 ELSE 0)
    /\ \A k \in CountAdds \cup AggsAdds :
         /\ \A r \in Readies : k < r
         /\ \A d \in DocAdds : (\A r \in Readies : d < r) => d < k

\* C6 amended: the count record (and the aggregation record when there are
\* aggregations) is added exactly once, with the count the search returned,
\* before the first added message of the initial result and before ready,
\* whatever the two intervals are.
C6_BaselineBeforeInitialAdds ==
  Published =>
    /\ CountAdds = {1}
    /\ msgs[1].count = sub.count
    /\ AggsAdds = (IF HasAggs THEN {2} ELSE {})
    /\ \A k \in CountAdds \cup AggsAdds :
         /\ \A r \in Readies : k < r
         /\ \A d \in DocAdds : k < d

\* Neither interval is configured, the query has aggregations and a result,
\* and both records were pushed before the documents.
C6_Witness ==
  /\ Published
  /\ ~cfg.countUpdateIntervalMs
  /\ ~cfg.aggsUpdateIntervalMs
  /\ HasAggs
  /\ Len(initial) >= 1
  /\ CountAdds = {1}
  /\ AggsAdds = {2}
  /\ 3 \in DocAdds

\* C7: every value pushed for the count record, at the initial push and at
\* every refresh tick, is the number of matching documents at that instant.
C7_CountIsLive ==
  ev.kind \in {"publish", "countTick"} => ev.out[1].count = ev.matching

IsChanged(m, id, position) ==
  /\ m.kind = "changed"
  /\ m.key = KeyFor(id)
  /\ m.doc.__sortPosition = position

\* C8 as stated: every movedTo produces two changed messages, one keyed by
\* the moved document with toIndex and one keyed by the before document.
C8_MovedToTwoChanged ==
  ev.kind = "movedTo" =>
    /\ Len(ev.out) = 2
    /\ \E i, j \in 1..2 :
         /\ i # j
         /\ IsChanged(ev.out[i], ev.id, ev.to)
         /\ ev.out[j].kind = "changed"
         /\ ev.out[j].key = KeyFor(ev.before)

\* C8 amended: a movedTo whose before document findOne finds produces two
\* changed messages, first one keyed by the before document carrying
\* fromIndex, then one keyed by the moved document carrying toIndex; a movedTo
\* with before null (a move to the end), or whose before document is gone
\* from the collection, produces only the changed of the moved document.
C8_MovedToChanged ==
  ev.kind = "movedTo" =>
    IF ev.before # Null /\ ev.before \in ev.coll
    THEN /\ Len(ev.out) = 2
         /\ IsChanged(ev.out[1], ev.before, ev.from)
         /\ IsChanged(ev.out[2], ev.id, ev.to)
    ELSE /\ Len(ev.out) = 1
         /\ IsChanged(ev.out[1], ev.id, ev.to)

\* A document moved up over at least two others, with a before document.
C8_Witness ==
  /\ ev.kind = "movedTo"
  /\ ev.before # Null
  /\ ev.from >= ev.to + 2
  /\ Len(ev.out) = 2
  /\ msgs[Len(msgs)] = ev.out[2]

\* C9: while the subscription streams, the read view of the mirror for the
\* subscription's query holds exactly the documents of the engine's current
\* result, in the engine's order.
C9_ReadViewIsResult ==
  pc = "streaming" =>
    IsReadOrder(mirror, req.searchDefinition, req.props, store)

\* C12: a session starts at most two timers, and after the stop handlers have
\* run no timer the session started is still scheduled.
C12_TimersCancelledOnStop ==
  /\ Cardinality(timers) <= 2
  /\ pc = "stopped" => timers = {}

\* Messages of the last event that carry a sort position.
Positioned(out) == {k \in 1..Len(out) : out[k].doc.__sortPosition # NoPos}

\* C13: every position stamped by addedAt, changedAt and movedTo (both of its
\* messages) is the index of that document in the engine's order at the event.
C13_PositionIsIndex ==
  ev.kind \in {"addedAt", "changedAt", "movedTo"} =>
    \A k \in Positioned(ev.out) :
      ev.out[k].doc.__sortPosition = IndexOf(store, ev.out[k].doc._id)

\* C14: a count refresh tick recounts the store cursor when the collection
\* was constructed with mongoCount = true, and uses the engine cursor's own
\* count when it was constructed with mongoCount = false.
C14_CountStrategyByConfiguration ==
  ev.kind = "countTick" =>
    ev.out[1].count = (IF cfg.mongoCount THEN ev.matching ELSE sub.count)

Times(log, op, h) ==
  Cardinality({k \in 1..Len(log) : log[k].op = op /\ log[k].h = h})

\* C15: on stop of a streaming session the stop handlers together call the
\* observer's stop exactly once and cancel each started timer exactly once.
C15_TeardownExactlyOnce ==
  (ev.kind = "stop" /\ pc = "stopped") =>
    /\ Times(stopLog, "stop", "resultsHandle") = 1
    /\ \A t \in StartedTimers(cfg, sub.aggs) :
         Times(stopLog, "clearInterval", t) = 1

\* The key is in the subscription's published set after the first n messages.
RECURSIVE Live(_, _)
Live(n, key) ==
  IF n = 0 THEN FALSE
  ELSE IF msgs[n].key = key /\ msgs[n].kind = "added" THEN TRUE
  ELSE IF msgs[n].key = key /\ msgs[n].kind = "removed" THEN FALSE
  ELSE Live(n - 1, key)

\* C20: every changed or removed message targets a key that was added before
\* and not removed since, and no key is added while it is already added.
C20_MessagesTargetLiveKeys ==
  \A k \in 1..Len(msgs) :
    /\ msgs[k].kind \in {"changed", "removed"} => Live(k - 1, msgs[k].key)
    /\ msgs[k].kind = "added" => ~Live(k - 1, msgs[k].key)

\* A document was removed after a changed message of the neighbour of a move.
C20_Witness ==
  /\ ev.kind = "removedAt"
  /\ Len(msgs) >= 3
  /\ msgs[Len(msgs)].kind = "removed"
  /\ Live(Len(msgs) - 1, msgs[Len(msgs)].key)
  /\ msgs[Len(msgs) - 1].kind = "changed"
  /\ msgs[Len(msgs) - 2].kind = "changed"
  /\ msgs[Len(msgs) - 2].doc.__originalId = <<>>

\* C18: every aggregation refresh tick pushes, in a changed message for the
\* aggregation record, the aggregations of the query at that instant, and
\* the aggregation timer runs only for a query with aggregations and a
\* configured aggsUpdateIntervalMs.
C18_AggsTickIsLive ==
  /\ "aggs" \in timers => (HasAggs /\ cfg.aggsUpdateIntervalMs)
  /\ ev.kind = "aggsTick" =>
       /\ Len(ev.out) = 1
       /\ ev.out[1].kind = "changed"
       /\ ev.out[1].key = AggsKey(sub.definitionString)
       /\ ev.out[1].aggs = Aggregate(store)

\* C17: a subscription whose engine fails during the initial evaluation
\* (search, count or the start of the observer) never sends ready and keeps
\* no timer and no observer, whatever the two refresh intervals are.
C17_FailureReleasesEverything ==
  pc = "failed" => (Readies = {} /\ timers = {} /\ ~observing)

NoError(log) ==
  \A i \in 1..Len(log) : log[i].op \notin {"TypeError", "ReferenceError"}

\* C16: a second run of the stop handlers, and a run of them when no timer
\* was started, raises no error, emits no message, and a second run leaves
\* the timers and the observer as the first run left them.
C16_TeardownIdempotent ==
  [][/\ ev'.kind = "stopAgain" =>
          /\ timers' = timers
          /\ observing' = observing
          /\ msgs' = msgs
          /\ mirror' = mirror
          /\ NoError(SubSeq(stopLog', Len(stopLog) + 1, Len(stopLog')))
     /\ (ev'.kind = "stop" /\ timers = {}) =>
          /\ timers' = {}
          /\ ~observing'
          /\ msgs' = msgs
          /\ mirror' = mirror
          /\ NoError(SubSeq(stopLog', Len(stopLog) + 1, Len(stopLog')))]_vars

\* C19: the session's observer is active in every state from the start of
\* the observation to the stop, the handler starts it at most once, no
\* observer is active before, after a rejection or a failure, or once the
\* session is stopped, and a stopped session stays stopped and starts no
\* observer and no timer again.
C19_OneObserverUntilStopped ==
  /\ [](/\ (pc = "streaming" \/ (pc = "initializing" /\ req.fail = "none"))
             => observing
        /\ pc \in {"idle", "error", "failed", "stoppedInitializing", "stopped"}
             => ~observing
        /\ searchCalls <= 1)
  /\ [][(pc = "stoppedInitializing" \/ pc = "stopped") =>
       (/\ pc' \notin {"idle", "initializing", "streaming"}
        /\ ~observing'
        /\ timers' \subseteq timers
        /\ searchCalls' = searchCalls)]_vars

\* The count records of the mirror that the publication added for the
\* search definition d.
CountRecords(d) ==
  IF req.searchDefinition = d /\ CountAdds # {}
  THEN {r \in mirror : \E k \in CountAdds : r.key = msgs[k].key}
  ELSE {}

\* C11: find on the client returns reactive = true and the count of the
\* count record when the mirror holds the count record of that search
\* definition, and reactive = false and count 0 otherwise.
C11_FindReadsCountRecord ==
  ev.kind = "find" =>
    IF CountRecords(found.searchDefinition) # {}
    THEN /\ found.reactive
         /\ \A r \in CountRecords(found.searchDefinition) : found.count = r.count
    ELSE /\ ~found.reactive
         /\ found.count = 0

\* find returned a reactive cursor with the count a count tick pushed.
C11_Witness ==
  /\ ev.kind = "find"
  /\ found.reactive
  /\ found.count > 0
  /\ \E k \in 1..Len(msgs) :
       /\ msgs[k].kind = "changed"
       /\ msgs[k].key = CountKey(sub.definitionString)

====
